---- MODULE Spec2Model ----
(***************************************************************************)
(* The scoring engine of the vendor verification tool, class               *)
(* VendorScorerV3 of src/vendor_verifier.py, as a state machine.           *)
(*                                                                         *)
(* Representation.                                                         *)
(*  - An answers dict is a function from the field names to sequences of   *)
(*    length at most one: <<>> is "the key is not in the dict", <<v>> is   *)
(*    "the key maps to v".  Python's None is the token None.               *)
(*  - Points are counted in HALF POINTS, because the code adds 2.5: the    *)
(*    code's 2.5 is 5 here, its 3 is Pt(3) = 6, its threshold 80 is        *)
(*    Pt(80) = 160.  Every number the code produces is a multiple of 0.5   *)
(*    and far below 2^53, so its float arithmetic is exact.                *)
(*  - The emoji that prefix the code's messages are left out of the        *)
(*    message strings.                                                     *)
(***************************************************************************)
EXTENDS Integers, Sequences, FiniteSets, TLC

VARIABLES
    scorer,       \* the VendorScorerV3 object
    badge_info,   \* what get_badge returned last
    pc,           \* the method of the scorer that was called last
    round,        \* how many times calculate_total_score was called on the scorer
    previous,     \* the outputs of the round before this one: <<>> or <<outputs>>
    session_state,\* st.session_state: current_step, vendor_data, final_score
    message,      \* the st.error text the last run of the script showed, or ""
    committed,    \* how far this assessment's commits got: 0, then 1, 2, 3 as
                  \* the step-1, step-2, step-3 updates ran in that order
    assessment,   \* the number of the assessment the session is in
    earlier,      \* the badge the assessment before this one ended with, or ""
    revised       \* step 1 was committed again and withdrew a rated document

engine_vars == <<scorer, badge_info, pc, round, previous>>

wizard_vars == <<session_state, message, committed, assessment, earlier, revised>>

vars == <<engine_vars, wizard_vars>>

-----------------------------------------------------------------------------
(* Bounds of the model and constants of the program *)

\* how many fields an input record may differ in from one of the Samples
MaxDiff == 1

\* largest guarantor_count handed to the engine (the form offers 0, 1, 2)
MaxGuarantors == 3

\* largest red_flags_count handed to the engine (the form offers 0..10)
MaxRedFlags == 11

\* how many times the methods are called on one scorer
MaxCalls == 2

\* how many assessments one session runs
MaxAssessments == 2

GuarantorOptionsMax == 2
RatingMin == 1
RatingMax == 5
RedFlagsMin == 0
RedFlagsMax == 10

\* n whole points, in half points
Pt(n) == 2 * n

\* Python's None
None == "None"

\* a string that is a key of no rule table
OutOfDomain == "xyz"

-----------------------------------------------------------------------------
(* The answers record *)

BoolFields ==
    {"has_name", "has_phone", "has_address", "has_social_media",
     "has_id_photo", "has_supplier_proof", "has_operations_proof",
     "has_testimonials", "has_refund_policy", "has_delivery_info"}

QualityFields ==
    {"id_quality", "registration_quality", "supplier_quality", "operations_quality"}

CategoryFields ==
    QualityFields \cup {"registration_type", "testimonial_quality", "communication_quality"}

CountFields == {"guarantor_count", "responsiveness_rating", "red_flags_count"}

Fields == BoolFields \cup CategoryFields \cup CountFields

RegistrationTypes == {"none", "smedan", "cac"}
Qualities == {"poor", "acceptable", "excellent"}
TestimonialQualities == {"suspicious", "mixed", "authentic"}
CommunicationQualities == {"unprofessional", "professional"}

\* the values the form can commit for a field
ValidValues(k) ==
    CASE k \in BoolFields -> BOOLEAN
      [] k \in QualityFields -> Qualities
      [] k = "registration_type" -> RegistrationTypes
      [] k = "testimonial_quality" -> TestimonialQualities
      [] k = "communication_quality" -> CommunicationQualities
      [] k = "guarantor_count" -> 0..GuarantorOptionsMax
      [] k = "responsiveness_rating" -> RatingMin..RatingMax
      [] k = "red_flags_count" -> RedFlagsMin..RedFlagsMax

\* the values a caller of the engine may put in a field
InputValues(k) ==
    CASE k \in CategoryFields -> ValidValues(k) \cup {None, OutOfDomain}
      [] k = "guarantor_count" -> 0..MaxGuarantors
      [] k = "red_flags_count" -> 0..MaxRedFlags
      [] OTHER -> ValidValues(k)

\* dict.get(key, default)
Get(d, k, default) == IF Len(d[k]) = 0 THEN default ELSE d[k][1]

\* the truth value of dict.get(key) for a field that holds a bool
Truthy(d, k) == Len(d[k]) = 1 /\ d[k][1] = TRUE

\* table.get(key, default) for a rule table
Lookup(table, key, default) == IF key \in DOMAIN table THEN table[key] ELSE default

\* d[key] = value for the category_scores dict
Put(d, key, value) == (key :> value) @@ d

RECURSIVE SumOver(_, _)
SumOver(f, S) ==
    IF S = {} THEN 0
    ELSE LET k == CHOOSE x \in S : TRUE IN f[k] + SumOver(f, S \ {k})

\* sum(d.values())
SumValues(d) == SumOver(d, DOMAIN d)

-----------------------------------------------------------------------------
(* class VendorScorerV3 *)

EmptyDict == [k \in {} |-> 0]

\* __init__
VendorScorerV3(data) ==
    [data |-> data, score |-> 0, category_scores |-> EmptyDict,
     recommendations |-> <<>>, risk_factors |-> <<>>]

\* reg_points with the points of smedan and cac exchanged
reg_points_Swapped == [none |-> Pt(0), smedan |-> Pt(5), cac |-> Pt(3)]

reg_points == [none |-> Pt(0), smedan |-> Pt(3), cac |-> Pt(5)]

\* the Basic Information part of calculate_auto_score
BasicInformation(d) ==
      (IF Truthy(d, "has_name") THEN Pt(3) ELSE 0)
    + (IF Truthy(d, "has_phone") THEN Pt(4) ELSE 0)
    + (IF Truthy(d, "has_address") THEN Pt(4) ELSE 0)
    + (IF Truthy(d, "has_social_media") THEN Pt(4) ELSE 0)

\* guarantor_count * 2.5
GuarantorPoints(d) == Get(d, "guarantor_count", 0) * 5

\* the Documents Submitted part of calculate_auto_score
DocumentsSubmitted(d) ==
      (IF Truthy(d, "has_id_photo") THEN Pt(5) ELSE 0)
    + GuarantorPoints(d)
    + Lookup(reg_points, Get(d, "registration_type", "none"), 0)
    + (IF Truthy(d, "has_supplier_proof") THEN Pt(5) ELSE 0)
    + (IF Truthy(d, "has_operations_proof") THEN Pt(5) ELSE 0)
    + (IF Truthy(d, "has_testimonials") THEN 5 ELSE 0)

calculate_auto_score(self) ==
    LET score == BasicInformation(self.data)
        doc_score == DocumentsSubmitted(self.data)
        cs1 == Put(self.category_scores, "Basic Information", score)
        cs2 == Put(cs1, "Documents Submitted", doc_score)
    IN  [self |-> [self EXCEPT !.category_scores = cs2], ret |-> score + doc_score]

\* quality_points with no point for 'poor'
quality_points_PoorZero == [poor |-> Pt(0), acceptable |-> Pt(3), excellent |-> Pt(5)]

quality_points == [poor |-> Pt(1), acceptable |-> Pt(3), excellent |-> Pt(5)]

testimonial_points == [suspicious |-> Pt(0), mixed |-> Pt(5), authentic |-> Pt(10)]

\* quality_points.get(self.data.get(field, 'poor'), 0)
QualityPoints(d, k) == Lookup(quality_points, Get(d, k, "poor"), 0)

calculate_quality_score(self) ==
    LET d == self.data
        score ==
              QualityPoints(d, "id_quality")
            + QualityPoints(d, "registration_quality")
            + QualityPoints(d, "supplier_quality")
            + QualityPoints(d, "operations_quality")
            + Lookup(testimonial_points, Get(d, "testimonial_quality", "suspicious"), 0)
            + (IF Truthy(d, "has_refund_policy") THEN 5 ELSE 0)
            + (IF Truthy(d, "has_delivery_info") THEN 5 ELSE 0)
    IN  [self |-> [self EXCEPT !.category_scores =
                        Put(self.category_scores, "Document Quality", score)],
         ret |-> score]

\* comm_points with 20 points for 'professional'
comm_points_Twenty == [unprofessional |-> Pt(0), professional |-> Pt(20)]

comm_points == [unprofessional |-> Pt(0), professional |-> Pt(10)]

Min(a, b) == IF a <= b THEN a ELSE b

\* the interaction score before the red flags penalty
InteractionBeforePenalty(d) ==
      Get(d, "responsiveness_rating", 1) * Pt(2)
    + Lookup(comm_points, Get(d, "communication_quality", "unprofessional"), 0)

\* the penalty without its cap
Penalty_Uncapped(red_flags, score) == red_flags * Pt(5)

\* penalty = min(red_flags * 5, score)
Penalty(red_flags, score) == Min(red_flags * Pt(5), score)

calculate_interaction_score(self) ==
    LET d == self.data
        before == InteractionBeforePenalty(d)
        red_flags == Get(d, "red_flags_count", 0)
        penalty == Penalty(red_flags, before)
        score == before - penalty
        cs1 == Put(self.category_scores, "WhatsApp Interaction", score)
        cs2 == IF red_flags > 0 THEN Put(cs1, "Red Flags Penalty", -penalty) ELSE cs1
    IN  [self |-> [self EXCEPT !.category_scores = cs2], ret |-> score]

calculate_total_score(self) ==
    LET a == calculate_auto_score(self)
        q == calculate_quality_score(a.self)
        i == calculate_interaction_score(q.self)
        total == a.ret + q.ret + i.ret
    IN  [self |-> [i.self EXCEPT !.score = total], ret |-> total]

\* the list that replaces the old one: self.recommendations = []
NewList_Keep(old) == old

NewList(old) == <<>>

\* a list with x put in front when the condition holds
AppendIf_Prepend(list, cond, x) == IF cond THEN <<x>> \o list ELSE list

\* a list with x appended when the condition holds
AppendIf(list, cond, x) == IF cond THEN Append(list, x) ELSE list

generate_recommendations(self) ==
    LET d == self.data
        r0 == NewList(self.recommendations)
        r1 == AppendIf(r0, ~Truthy(d, "has_name"),
                       "Obtain complete business/individual name")
        r2 == AppendIf(r1, ~Truthy(d, "has_phone"), "Verify phone number")
        r3 == AppendIf(r2, ~Truthy(d, "has_address"), "Request complete address")
        r4 == AppendIf(r3, ~Truthy(d, "has_id_photo"), "Require ID photo upload")
        r5 == AppendIf(r4, Get(d, "guarantor_count", 0) < 2,
                       "Request at least 2 guarantor contacts")
        r6 == AppendIf(r5, Get(d, "registration_type", None) = "none",
                       "Request business registration (CAC/SMEDAN)")
        r7 == AppendIf(r6, ~Truthy(d, "has_supplier_proof"),
                       "Obtain supplier documentation")
        r8 == AppendIf(r7, ~Truthy(d, "has_operations_proof"),
                       "Request proof of business operations")
        r9 == AppendIf(r8, Get(d, "testimonial_quality", None) \in {"suspicious", "mixed"},
                       "Verify customer testimonials authenticity")
        r10 == AppendIf(r9, Get(d, "responsiveness_rating", 5) < 3,
                        "Address slow response time concerns")
        r11 == AppendIf(r10, Get(d, "communication_quality", None) = "unprofessional",
                        "Provide communication guidelines")
    IN  [self EXCEPT !.recommendations = r11]

identify_risk_factors(self) ==
    LET d == self.data
        r0 == NewList(self.risk_factors)
        r1 == AppendIf(r0, Get(d, "red_flags_count", 0) > 0,
                       ToString(Get(d, "red_flags_count", 0)) \o " red flags identified")
        r2 == AppendIf(r1, Get(d, "testimonial_quality", None) = "suspicious",
                       "Suspicious testimonials detected")
        r3 == AppendIf(r2, Get(d, "communication_quality", None) = "unprofessional",
                       "Unprofessional communication style")
        r4 == AppendIf(r3, Get(d, "responsiveness_rating", 5) = 1,
                       "Very poor responsiveness")
        r5 == AppendIf(r4, ~Truthy(d, "has_id_photo"), "No ID verification completed")
        r6 == AppendIf(r5, Get(d, "registration_type", None) = "none",
                       "No business registration on file")
        r7 == AppendIf(r6, Get(d, "id_quality", None) = "poor",
                       "Poor quality ID documentation")
    IN  [self EXCEPT !.risk_factors = r7]

GreenBadge ==
    [badge |-> "Green (Verified)", status |-> "APPROVED",
     description |-> "Low risk vendor with strong verification", color |-> "#10b981"]

YellowBadge ==
    [badge |-> "Yellow (Conditional)", status |-> "CONDITIONAL",
     description |-> "Medium risk - proceed with caution and monitoring",
     color |-> "#f59e0b"]

RedBadge ==
    [badge |-> "Red (Rejected)", status |-> "REJECTED",
     description |-> "High risk - requires significant improvements", color |-> "#ef4444"]

\* the tiers with > for >=
BadgeFor_StrictCut(score) ==
    IF score > Pt(80) THEN GreenBadge
    ELSE IF score > Pt(60) THEN YellowBadge
    ELSE RedBadge

\* the tier of get_badge for a score
BadgeFor(score) ==
    IF score >= Pt(80) THEN GreenBadge
    ELSE IF score >= Pt(60) THEN YellowBadge
    ELSE RedBadge

get_badge(self) == BadgeFor(self.score)

-----------------------------------------------------------------------------
(* The records the engine is run on *)

\* a record that gives every field of each kind the same value
Uniform(b, g, reg, q, t, r, c, f) ==
    [k \in Fields |->
        CASE k \in BoolFields -> <<b>>
          [] k \in QualityFields -> <<q>>
          [] k = "registration_type" -> <<reg>>
          [] k = "testimonial_quality" -> <<t>>
          [] k = "communication_quality" -> <<c>>
          [] k = "guarantor_count" -> <<g>>
          [] k = "responsiveness_rating" -> <<r>>
          [] k = "red_flags_count" -> <<f>>]

\* the values of the category fields, from the lowest ranked to the highest
RegistrationRank == <<"none", "smedan", "cac">>
QualityRank == <<"poor", "acceptable", "excellent">>
TestimonialRank == <<"suspicious", "mixed", "authentic">>
CommunicationRank == <<"unprofessional", "professional">>

\* vendor_data = {}
EmptyRecord == [k \in Fields |-> <<>>]

\* a complete record: every checkbox at b, every graded answer at level
\* lvl (0 lowest, 1 middle, 2 highest), communication c, no red flags
Profile(b, lvl, c) ==
    Uniform(b, lvl, RegistrationRank[lvl + 1], QualityRank[lvl + 1],
            TestimonialRank[lvl + 1], RatingMin + 2 * lvl, c, RedFlagsMin)

WorstRecord == Profile(FALSE, 0, "unprofessional")

BestRecord == Profile(TRUE, GuarantorOptionsMax, "professional")

Samples ==
    {EmptyRecord} \cup
    {Profile(b, lvl, c) : b \in BOOLEAN, lvl \in 0..GuarantorOptionsMax,
                          c \in CommunicationQualities}

Distance(d, e) == Cardinality({k \in Fields : d[k] # e[k]})

\* d is one of the input records of the model
IsInput(d) == \E s \in Samples : Distance(d, s) <= MaxDiff

\* every present field holds a value the form can commit
IsValid(d) == \A k \in Fields : Len(d[k]) = 1 /\ d[k][1] \in ValidValues(k)

-----------------------------------------------------------------------------
(* The session of the wizard *)

\* the keys of vendor_data that the engine does not read
TextFields ==
    {"vendor_name", "vendor_email", "vendor_category", "assessment_date",
     "red_flags_notes", "reviewer_notes"}

WizardKeys == Fields \cup TextFields

\* the keys each step's handler writes
Step1Keys ==
    {"vendor_name", "vendor_email", "vendor_category", "assessment_date",
     "has_name", "has_phone", "has_address", "has_social_media", "has_id_photo",
     "guarantor_count", "registration_type", "has_supplier_proof",
     "has_operations_proof", "has_testimonials", "has_refund_policy",
     "has_delivery_info"}

Step2Keys ==
    {"id_quality", "registration_quality", "supplier_quality",
     "operations_quality", "testimonial_quality"}

Step3Keys ==
    {"responsiveness_rating", "communication_quality", "red_flags_count",
     "red_flags_notes", "reviewer_notes"}

\* vendor_data = {}
EmptyVendorData == [k \in WizardKeys |-> <<>>]

\* the session before the first run of the script; final_score None is <<>>
NewSession ==
    [current_step |-> 1, vendor_data |-> EmptyVendorData, final_score |-> <<>>]

SessionInit ==
    /\ session_state = NewSession
    /\ message = ""
    /\ committed = 0
    /\ assessment = 1
    /\ earlier = ""
    /\ revised = FALSE

-----------------------------------------------------------------------------
(* The state machine: a caller fills in the answers dict that the scorer   *)
(* holds a reference to, then calls the methods in the order of the        *)
(* source's "Calculate" handler.                                           *)

NoBadge == [badge |-> "", status |-> "", description |-> "", color |-> ""]

\* what the caller holds after a round of calls
Outputs ==
    [category_scores |-> scorer.category_scores, score |-> scorer.score,
     recommendations |-> scorer.recommendations,
     risk_factors |-> scorer.risk_factors, badge_info |-> badge_info]

EngineInit ==
    /\ \E d \in Samples : scorer = VendorScorerV3(d)
    /\ badge_info = NoBadge
    /\ pc = "init"
    /\ round = 0
    /\ previous = <<>>

Init == EngineInit /\ SessionInit

\* data[k] = v
SetField(k, v) ==
    /\ pc = "init"
    /\ scorer.data[k] # <<v>>
    /\ LET d == [scorer.data EXCEPT ![k] = <<v>>] IN
         /\ IsInput(d)
         /\ scorer' = [scorer EXCEPT !.data = d]
    /\ UNCHANGED <<badge_info, pc, round, previous>>
    /\ UNCHANGED wizard_vars

\* del data[k]
DelField(k) ==
    /\ pc = "init"
    /\ scorer.data[k] # <<>>
    /\ LET d == [scorer.data EXCEPT ![k] = <<>>] IN
         /\ IsInput(d)
         /\ scorer' = [scorer EXCEPT !.data = d]
    /\ UNCHANGED <<badge_info, pc, round, previous>>
    /\ UNCHANGED wizard_vars

CalculateTotalScore ==
    /\ pc = "init"
    /\ scorer' = calculate_total_score(scorer).self
    /\ pc' = "calculate_total_score"
    /\ round' = 1
    /\ UNCHANGED <<badge_info, previous>>
    /\ UNCHANGED wizard_vars

\* calculate_total_score called again on the same scorer, the answers
\* unchanged
CalculateAgain ==
    /\ pc = "get_badge"
    /\ round < MaxCalls
    /\ scorer' = calculate_total_score(scorer).self
    /\ pc' = "calculate_total_score"
    /\ round' = round + 1
    /\ previous' = <<Outputs>>
    /\ UNCHANGED badge_info
    /\ UNCHANGED wizard_vars

GenerateRecommendations ==
    /\ pc = "calculate_total_score"
    /\ scorer' = generate_recommendations(scorer)
    /\ pc' = "generate_recommendations"
    /\ UNCHANGED <<badge_info, round, previous>>
    /\ UNCHANGED wizard_vars

IdentifyRiskFactors ==
    /\ pc = "generate_recommendations"
    /\ scorer' = identify_risk_factors(scorer)
    /\ pc' = "identify_risk_factors"
    /\ UNCHANGED <<badge_info, round, previous>>
    /\ UNCHANGED wizard_vars

GetBadge ==
    /\ pc = "identify_risk_factors"
    /\ badge_info' = get_badge(scorer)
    /\ pc' = "get_badge"
    /\ UNCHANGED <<scorer, round, previous>>
    /\ UNCHANGED wizard_vars

Next ==
    \/ \E k \in Fields : \E v \in InputValues(k) : SetField(k, v)
    \/ \E k \in Fields : DelField(k)
    \/ CalculateTotalScore
    \/ CalculateAgain
    \/ GenerateRecommendations
    \/ IdentifyRiskFactors
    \/ GetBadge

Spec == Init /\ [][Next]_vars

-----------------------------------------------------------------------------
(* The wizard: the handlers of the script's buttons.  A handler is an      *)
(* operator on the session; the values of the widgets in the run in which  *)
(* the button was pressed are its argument sel, a function from the keys   *)
(* of the step to the values the widgets returned.                         *)

\* what is typed as the vendor name
VendorNames == {"", "Acme Stores"}

\* what is entered in any other text widget
Text == "text"

\* the answers of the complete record s to the keys K, as widget values
Answers(s, K) ==
    [k \in K |-> IF k \in Fields THEN s[k][1] ELSE Text]

\* the step-1 answers that decide which ratings step 2 asks for
DocumentFields ==
    {"has_id_photo", "registration_type", "has_supplier_proof",
     "has_operations_proof", "has_testimonials"}

\* the selections that differ from sel in at most one answer to a key of K
Vary(sel, K) ==
    {sel} \cup UNION {{[sel EXCEPT ![k] = v] : v \in ValidValues(k)} : k \in K}

\* the selections of the widgets that the model draws from: the answers of
\* the complete samples, with one document answer varied at step 1 when a
\* name is given, and with no, one or the most red flags at step 3
Step1Selections ==
    {[Answers(s, Step1Keys) EXCEPT !["vendor_name"] = n] :
        s \in Samples \ {EmptyRecord}, n \in VendorNames}
    \cup UNION {Vary([Answers(s, Step1Keys) EXCEPT !["vendor_name"] = n],
                     DocumentFields) :
                   s \in Samples \ {EmptyRecord}, n \in VendorNames \ {""}}

Step2Selections == {Answers(s, Step2Keys) : s \in Samples \ {EmptyRecord}}

Step3Selections ==
    {[Answers(s, Step3Keys) EXCEPT !["red_flags_count"] = f] :
        s \in Samples \ {EmptyRecord},
        f \in {RedFlagsMin, RedFlagsMin + 1, RedFlagsMax}}

\* what the sliders of step 2 show before they are moved
DefaultRatings ==
    [k \in Step2Keys |-> IF k = "testimonial_quality" THEN "mixed" ELSE "acceptable"]

\* dict.update
Update(vd, sel) ==
    [k \in DOMAIN vd |-> IF k \in DOMAIN sel THEN <<sel[k]>> ELSE vd[k]]

\* the condition under which step 2 shows the widget of a rating
Submitted(vd, k) ==
    CASE k = "id_quality" -> Truthy(vd, "has_id_photo")
      [] k = "registration_quality" -> Get(vd, "registration_type", None) # "none"
      [] k = "supplier_quality" -> Truthy(vd, "has_supplier_proof")
      [] k = "operations_quality" -> Truthy(vd, "has_operations_proof")
      [] k = "testimonial_quality" -> Truthy(vd, "has_testimonials")

\* the rating step 2 uses when it does not show the widget
Unrated(k) == IF k = "testimonial_quality" THEN "suspicious" ELSE "poor"

Rating_Stale(vd, sel, k) ==
    IF Submitted(vd, k) THEN sel[k] ELSE Get(vd, k, Unrated(k))

\* the value of a rating in a run of step 2
Rating(vd, sel, k) ==
    IF Submitted(vd, k) THEN sel[k] ELSE Unrated(k)

NameError == "Please enter the vendor name before continuing"

Step1Continue_SkipReview(ss, sel) ==
    IF sel["vendor_name"] = ""
    THEN [state |-> ss, error |-> NameError]
    ELSE [state |-> [ss EXCEPT !.vendor_data = Update(@, sel),
                               !.current_step = 3],
          error |-> ""]

\* "Continue to Document Review"
Step1Continue(ss, sel) ==
    IF sel["vendor_name"] = ""
    THEN [state |-> ss, error |-> NameError]
    ELSE [state |-> [ss EXCEPT !.vendor_data = Update(@, sel),
                               !.current_step = 2],
          error |-> ""]

Step2Back_Commit(ss) ==
    [ss EXCEPT !.vendor_data =
                   Update(@, [k \in Step2Keys |->
                                 Rating(ss.vendor_data, DefaultRatings, k)]),
               !.current_step = 1]

\* "Back to Data Entry"
Step2Back(ss) == [ss EXCEPT !.current_step = 1]

\* "Continue to WhatsApp Assessment"
Step2Continue(ss, sel) ==
    [ss EXCEPT !.vendor_data =
                   Update(@, [k \in Step2Keys |-> Rating(ss.vendor_data, sel, k)]),
               !.current_step = 3]

\* "Back to Document Review"
Step3Back(ss) == [ss EXCEPT !.current_step = 2]

\* the value of red_flags_notes in a run of step 3
RedFlagsNotes(sel) ==
    IF sel["red_flags_count"] > 0 THEN sel["red_flags_notes"] ELSE ""

\* "Calculate Final Score & Generate Report"
Step3Calculate(ss, sel) ==
    LET vd == Update(ss.vendor_data,
                     [sel EXCEPT !["red_flags_notes"] = RedFlagsNotes(sel)])
        total == calculate_total_score(VendorScorerV3(vd))
        s2 == generate_recommendations(total.self)
        s3 == identify_risk_factors(s2)
    IN  [current_step |-> 4, vendor_data |-> vd,
         final_score |-> <<[scorer |-> s3, score |-> total.ret,
                            badge_info |-> get_badge(s3)]>>]

StartNewAssessment_KeepData(ss) ==
    [current_step |-> 1, vendor_data |-> ss.vendor_data, final_score |-> <<>>]

\* "Start New Assessment"
StartNewAssessment(ss) ==
    [current_step |-> 1, vendor_data |-> EmptyVendorData, final_score |-> <<>>]

\* a rating above the unrated one is committed for a document that the
\* committed step-1 answers say is missing
HasStaleRating(vd) ==
    \E k \in Step2Keys :
        vd[k] # <<>> /\ vd[k] # <<Unrated(k)>> /\ ~Submitted(vd, k)

\* the commits of the steps, in order: n is the step whose update ran
Advance(c, n) == IF c = n - 1 THEN n ELSE c

EngineIdle ==
    /\ scorer = VendorScorerV3(EmptyRecord)
    /\ badge_info = NoBadge
    /\ pc = "init"
    /\ round = 0
    /\ previous = <<>>

WizardInit == EngineIdle /\ SessionInit

ContinueToDocumentReview ==
    /\ session_state.current_step = 1
    /\ \E sel \in Step1Selections :
         LET r == Step1Continue(session_state, sel) IN
           /\ session_state' = r.state
           /\ message' = r.error
           /\ committed' = IF r.error = "" THEN Advance(committed, 1) ELSE committed
           /\ revised' = (revised \/ HasStaleRating(r.state.vendor_data))
    /\ UNCHANGED <<assessment, earlier>>
    /\ UNCHANGED engine_vars

BackToDataEntry ==
    /\ session_state.current_step = 2
    /\ session_state' = Step2Back(session_state)
    /\ message' = ""
    /\ UNCHANGED <<committed, assessment, earlier, revised>>
    /\ UNCHANGED engine_vars

ContinueToWhatsAppAssessment ==
    /\ session_state.current_step = 2
    /\ \E sel \in Step2Selections :
         session_state' = Step2Continue(session_state, sel)
    /\ message' = ""
    /\ committed' = Advance(committed, 2)
    /\ UNCHANGED <<assessment, earlier, revised>>
    /\ UNCHANGED engine_vars

BackToDocumentReview ==
    /\ session_state.current_step = 3
    /\ session_state' = Step3Back(session_state)
    /\ message' = ""
    /\ UNCHANGED <<committed, assessment, earlier, revised>>
    /\ UNCHANGED engine_vars

CalculateFinalScore ==
    /\ session_state.current_step = 3
    /\ \E sel \in Step3Selections :
         session_state' = Step3Calculate(session_state, sel)
    /\ message' = ""
    /\ committed' = Advance(committed, 3)
    /\ UNCHANGED <<assessment, earlier, revised>>
    /\ UNCHANGED engine_vars

StartNew ==
    /\ session_state.current_step = 4
    /\ assessment < MaxAssessments
    /\ session_state' = StartNewAssessment(session_state)
    /\ message' = ""
    /\ committed' = 0
    /\ assessment' = assessment + 1
    /\ earlier' = session_state.final_score[1].badge_info.badge
    /\ revised' = FALSE
    /\ UNCHANGED engine_vars

WizardNext ==
    \/ ContinueToDocumentReview
    \/ BackToDataEntry
    \/ ContinueToWhatsAppAssessment
    \/ BackToDocumentReview
    \/ CalculateFinalScore
    \/ StartNew

WizardSpec == WizardInit /\ [][WizardNext]_vars

-----------------------------------------------------------------------------
(* What the claims speak about *)

\* calculate_total_score has run on the scorer
Scored == pc # "init"

\* the four calls of the source's "Calculate" handler on a fresh scorer for d
Assess(d) ==
    LET s1 == calculate_total_score(VendorScorerV3(d)).self
        s2 == generate_recommendations(s1)
        s3 == identify_risk_factors(s2)
    IN  [category_scores |-> s3.category_scores, score |-> s3.score,
         recommendations |-> s3.recommendations, risk_factors |-> s3.risk_factors,
         badge_info |-> get_badge(s3)]

\* the category_scores entry that a field is scored in
CategoryOf(k) ==
    CASE k \in {"has_name", "has_phone", "has_address", "has_social_media"}
            -> "Basic Information"
      [] k \in {"has_id_photo", "guarantor_count", "registration_type",
                "has_supplier_proof", "has_operations_proof", "has_testimonials"}
            -> "Documents Submitted"
      [] k \in QualityFields \cup
               {"testimonial_quality", "has_refund_policy", "has_delivery_info"}
            -> "Document Quality"
      [] OTHER -> "WhatsApp Interaction"

\* the maximum the report shows for each category
max_scores ==
    "Basic Information" :> Pt(15) @@ "Documents Submitted" :> Pt(25) @@
    "Document Quality" :> Pt(35) @@ "WhatsApp Interaction" :> Pt(25)

\* the lowest ranked value of a category field
Lowest(k) ==
    CASE k \in QualityFields -> QualityRank[1]
      [] k = "registration_type" -> RegistrationRank[1]
      [] k = "testimonial_quality" -> TestimonialRank[1]
      [] k = "communication_quality" -> CommunicationRank[1]

Index(seq, v) == CHOOSE i \in 1..Len(seq) : seq[i] = v

\* the rank of a valid value of a field: higher is better
Rank(k, v) ==
    CASE k \in BoolFields -> IF v THEN 1 ELSE 0
      [] k \in QualityFields -> Index(QualityRank, v)
      [] k = "registration_type" -> Index(RegistrationRank, v)
      [] k = "testimonial_quality" -> Index(TestimonialRank, v)
      [] k = "communication_quality" -> Index(CommunicationRank, v)
      [] OTHER -> v

\* the fields the monotonicity claim lists (a higher red_flags_count is no
\* improvement)
RankedFields == Fields \ {"red_flags_count"}

Range(seq) == {seq[i] : i \in 1..Len(seq)}

\* the field that each message of identify_risk_factors reports on
RiskField(msg) ==
    CASE msg = "Suspicious testimonials detected" -> "testimonial_quality"
      [] msg = "Unprofessional communication style" -> "communication_quality"
      [] msg = "Very poor responsiveness" -> "responsiveness_rating"
      [] msg = "No ID verification completed" -> "has_id_photo"
      [] msg = "No business registration on file" -> "registration_type"
      [] msg = "Poor quality ID documentation" -> "id_quality"
      [] OTHER -> "red_flags_count"

\* a category field holds a value that is neither in its domain nor None
HasOutOfDomain(d) ==
    \E k \in CategoryFields :
        Len(d[k]) = 1 /\ d[k][1] \notin ValidValues(k) \cup {None}

\* the rules of generate_recommendations in the order of their definition:
\* the message of each and whether its condition holds of d
RecommendationRules(d) ==
    << [msg |-> "Obtain complete business/individual name",
        fires |-> ~Truthy(d, "has_name")],
       [msg |-> "Verify phone number", fires |-> ~Truthy(d, "has_phone")],
       [msg |-> "Request complete address", fires |-> ~Truthy(d, "has_address")],
       [msg |-> "Require ID photo upload", fires |-> ~Truthy(d, "has_id_photo")],
       [msg |-> "Request at least 2 guarantor contacts",
        fires |-> Get(d, "guarantor_count", 0) < 2],
       [msg |-> "Request business registration (CAC/SMEDAN)",
        fires |-> Get(d, "registration_type", None) = "none"],
       [msg |-> "Obtain supplier documentation",
        fires |-> ~Truthy(d, "has_supplier_proof")],
       [msg |-> "Request proof of business operations",
        fires |-> ~Truthy(d, "has_operations_proof")],
       [msg |-> "Verify customer testimonials authenticity",
        fires |-> Get(d, "testimonial_quality", None) \in {"suspicious", "mixed"}],
       [msg |-> "Address slow response time concerns",
        fires |-> Get(d, "responsiveness_rating", 5) < 3],
       [msg |-> "Provide communication guidelines",
        fires |-> Get(d, "communication_quality", None) = "unprofessional"] >>

\* the rules of identify_risk_factors in the order of their definition
RiskRules(d) ==
    << [msg |-> ToString(Get(d, "red_flags_count", 0)) \o " red flags identified",
        fires |-> Get(d, "red_flags_count", 0) > 0],
       [msg |-> "Suspicious testimonials detected",
        fires |-> Get(d, "testimonial_quality", None) = "suspicious"],
       [msg |-> "Unprofessional communication style",
        fires |-> Get(d, "communication_quality", None) = "unprofessional"],
       [msg |-> "Very poor responsiveness",
        fires |-> Get(d, "responsiveness_rating", 5) = 1],
       [msg |-> "No ID verification completed", fires |-> ~Truthy(d, "has_id_photo")],
       [msg |-> "No business registration on file",
        fires |-> Get(d, "registration_type", None) = "none"],
       [msg |-> "Poor quality ID documentation",
        fires |-> Get(d, "id_quality", None) = "poor"] >>

\* the position of a message in a rule list
RuleIndex(rules, m) == CHOOSE j \in 1..Len(rules) : rules[j].msg = m

\* list holds the message of every rule that fires and of no other, each
\* once, in the order of the rules
IsFiringSubsequence(list, rules) ==
    /\ \A i \in 1..Len(list) :
          \E j \in 1..Len(rules) : rules[j].msg = list[i] /\ rules[j].fires
    /\ \A j \in 1..Len(rules) :
          rules[j].fires => \E i \in 1..Len(list) : list[i] = rules[j].msg
    /\ \A i1, i2 \in 1..Len(list) :
          i1 < i2 => /\ list[i1] # list[i2]
                     /\ RuleIndex(rules, list[i1]) < RuleIndex(rules, list[i2])

-----------------------------------------------------------------------------
(* The claims *)

\* C1 (as claimed): for every valid answer record the total returned by
\* calculate_total_score equals the sum of all values stored in
\* category_scores, the 'Red Flags Penalty' entry included.
C1_TotalIsSumOfCategoryScores ==
    (Scored /\ IsValid(scorer.data))
        => scorer.score = SumValues(scorer.category_scores)

\* C2: get_badge maps the total to a badge by exact cut points with no
\* rounding: 80 and above is Green/APPROVED, 60 up to but not including 80 is
\* Yellow/CONDITIONAL, below 60 is Red/REJECTED; 80.0 and 60.0 are in the
\* higher tier and 79.5 and 59.5 in the lower one.
C2_BadgeCutPoints ==
    pc = "get_badge" =>
        /\ badge_info \in {GreenBadge, YellowBadge, RedBadge}
        /\ badge_info.status = "APPROVED" <=> scorer.score >= 160
        /\ badge_info.status = "CONDITIONAL" <=> scorer.score \in 120..159
        /\ badge_info.status = "REJECTED" <=> scorer.score <= 119
        /\ badge_info.badge = "Green (Verified)" <=> badge_info.status = "APPROVED"
        /\ badge_info.badge = "Yellow (Conditional)" <=> badge_info.status = "CONDITIONAL"
        /\ badge_info.badge = "Red (Rejected)" <=> badge_info.status = "REJECTED"

\* a total of exactly 80.0 has been given the Green badge
C2_Witness ==
    pc = "get_badge" /\ scorer.score = 160 /\ badge_info = GreenBadge

\* C3 (as claimed): for every valid answer record no category score exceeds
\* the category's stated maximum, and Basic Information + Documents
\* Submitted is at most 40.
C3_CategoryMaxima ==
    (Scored /\ IsValid(scorer.data)) =>
        /\ \A c \in DOMAIN max_scores : scorer.category_scores[c] <= max_scores[c]
        /\ scorer.category_scores["Basic Information"]
             + scorer.category_scores["Documents Submitted"] <= Pt(40)

\* C4: for every responsiveness_rating in 1..5, every communication_quality
\* and every red_flags_count >= 0 the 'WhatsApp Interaction' score is never
\* negative: it is the score before the penalty less 5 points per red flag,
\* and 0 when that would be negative.
C4_InteractionNeverNegative ==
    Scored =>
        LET before == InteractionBeforePenalty(scorer.data)
            flags == Get(scorer.data, "red_flags_count", 0)
            interaction == scorer.category_scores["WhatsApp Interaction"]
        IN  /\ interaction >= 0
            /\ interaction = IF flags * Pt(5) >= before THEN 0
                             ELSE before - flags * Pt(5)

\* the red flags would take more than the whole interaction score, and the
\* category stands at 0
C4_Witness ==
    /\ Scored
    /\ Get(scorer.data, "red_flags_count", 0) * Pt(5)
         > InteractionBeforePenalty(scorer.data)
    /\ Get(scorer.data, "communication_quality", None) = "professional"
    /\ scorer.category_scores["WhatsApp Interaction"] = 0

\* C5 (as claimed): for the all-worst-case record, and for the record with
\* every field absent, the total is 0 and the badge is Rejected/Red.
C5_AllWorstTotalZero ==
    (pc = "get_badge" /\ scorer.data \in {WorstRecord, EmptyRecord}) =>
        scorer.score = 0 /\ badge_info = RedBadge

\* C5 (amended): for the all-worst-case record, and for the record with
\* every field absent, the total is 6 (1 point for each of the four 'poor'
\* document qualities and 2 for responsiveness 1) and the badge is
\* Rejected/Red.
C5_AllWorstTotalSix ==
    (pc = "get_badge" /\ scorer.data \in {WorstRecord, EmptyRecord}) =>
        /\ scorer.score = Pt(6)
        /\ scorer.category_scores =
             ("Basic Information" :> 0 @@ "Documents Submitted" :> 0 @@
              "Document Quality" :> Pt(4) @@ "WhatsApp Interaction" :> Pt(2))
        /\ badge_info = RedBadge

\* the all-worst-case record has been scored and given its badge
C5_Witness == pc = "get_badge" /\ scorer.data = WorstRecord

\* C6 (as claimed): for the all-worst-case record with no red flags the
\* risk factors hold an entry about the missing phone verification and an
\* entry about the missing business registration.
C6_WorstHasPhoneAndRegistrationRisk ==
    (pc \in {"identify_risk_factors", "get_badge"} /\ scorer.data = WorstRecord) =>
        /\ \E m \in Range(scorer.risk_factors) : RiskField(m) = "has_phone"
        /\ \E m \in Range(scorer.risk_factors) : RiskField(m) = "registration_type"

\* C7 (as claimed): a category field that is unset or None contributes
\* exactly the points of its table's lowest category: the category scores
\* and the total are those of the record with the lowest category written
\* in that field.
C7_AbsentOrNoneScoresAsLowest ==
    Scored =>
        \A k \in CategoryFields :
            scorer.data[k] \in {<<>>, <<None>>} =>
                LET low == Assess([scorer.data EXCEPT ![k] = <<Lowest(k)>>])
                IN  /\ scorer.category_scores = low.category_scores
                    /\ scorer.score = low.score

\* C8 (as claimed): a field that is absent is treated as the field's worst
\* value by the score calculator, generate_recommendations and
\* identify_risk_factors alike: all outputs are those of the record with the
\* worst value written in that field.
C8_AbsentIsWorstEverywhere ==
    pc = "get_badge" =>
        \A k \in Fields :
            scorer.data[k] = <<>> =>
                LET worst == Assess([scorer.data EXCEPT ![k] = WorstRecord[k]])
                IN  /\ scorer.category_scores = worst.category_scores
                    /\ scorer.score = worst.score
                    /\ scorer.recommendations = worst.recommendations
                    /\ scorer.risk_factors = worst.risk_factors
                    /\ badge_info = worst.badge_info

\* C9 (as claimed): guarantors count 2.5 points each, capped at 2
\* guarantors: a guarantor_count of 2 or more contributes exactly 5 points,
\* so 'Documents Submitted' is what it is for a count of 2.
C9_GuarantorsCappedAtTwo ==
    (Scored /\ Get(scorer.data, "guarantor_count", 0) >= 2) =>
        /\ GuarantorPoints(scorer.data) = Pt(5)
        /\ scorer.category_scores["Documents Submitted"] =
             DocumentsSubmitted([scorer.data EXCEPT !["guarantor_count"] = <<2>>])

\* C10: for every valid answer record, giving one field a strictly higher
\* ranked value and leaving the others alone does not decrease the score of
\* the category the field is scored in; in particular a higher
\* responsiveness_rating never lowers 'WhatsApp Interaction', whatever the
\* red_flags_count.
C10_Monotonicity ==
    (Scored /\ IsValid(scorer.data)) =>
        \A k \in RankedFields : \A v \in ValidValues(k) :
            Rank(k, v) > Rank(k, scorer.data[k][1]) =>
                Assess([scorer.data EXCEPT ![k] = <<v>>]).category_scores[CategoryOf(k)]
                    >= scorer.category_scores[CategoryOf(k)]

\* a scored valid record with red flags whose responsiveness can be raised,
\* and raising it by one raises the interaction score
C10_Witness ==
    /\ Scored /\ IsValid(scorer.data)
    /\ scorer.data["red_flags_count"][1] > 0
    /\ scorer.data["responsiveness_rating"][1] < RatingMax
    /\ Assess([scorer.data EXCEPT !["responsiveness_rating"] =
                   <<scorer.data["responsiveness_rating"][1] + 1>>])
            .category_scores["WhatsApp Interaction"]
         > scorer.category_scores["WhatsApp Interaction"]

\* C11 (as claimed): a category field holding a value outside its domain
\* makes scoring end in an error: no total is ever returned for such a
\* record.
C11_OutOfDomainNeverScored == HasOutOfDomain(scorer.data) => ~Scored

\* C14: calling calculate_total_score, generate_recommendations,
\* identify_risk_factors and get_badge again on the same scorer with the
\* answers unchanged gives the category_scores, total, badge,
\* recommendations and risk_factors of the round before; nothing
\* accumulates or is duplicated, at any point of the later round.
C14_SecondRoundSame == previous # <<>> => Outputs = previous[1]

\* a later round of calls has ended on a record for which both lists are
\* non-empty and a 'Red Flags Penalty' entry is stored
C14_Witness ==
    /\ round > 1 /\ pc = "get_badge"
    /\ scorer.recommendations # <<>> /\ scorer.risk_factors # <<>>
    /\ "Red Flags Penalty" \in DOMAIN scorer.category_scores

\* C15: the recommendations are exactly the messages of the recommendation
\* rules whose own condition holds, each once, in the order the rules are
\* defined in, and likewise the risk factors: whether one rule fires changes
\* neither whether nor where another appears.
C15_RulesIndependentInOrder ==
    /\ pc \in {"generate_recommendations", "identify_risk_factors", "get_badge"}
          => IsFiringSubsequence(scorer.recommendations,
                                 RecommendationRules(scorer.data))
    /\ pc \in {"identify_risk_factors", "get_badge"}
          => IsFiringSubsequence(scorer.risk_factors, RiskRules(scorer.data))

\* both lists hold several messages, and a rule between two that fired did
\* not fire
C15_Witness ==
    /\ pc = "get_badge"
    /\ Len(scorer.recommendations) >= 2 /\ Len(scorer.risk_factors) >= 2
    /\ \E a, b, c \in 1..Len(RiskRules(scorer.data)) :
          /\ a < b /\ b < c
          /\ RiskRules(scorer.data)[a].fires
          /\ ~RiskRules(scorer.data)[b].fires
          /\ RiskRules(scorer.data)[c].fires

\* C16 (as claimed): for every valid record the stored 'Red Flags Penalty'
\* is between -15 and 0.
C16_PenaltyAtMostFifteen ==
    (Scored /\ IsValid(scorer.data)
        /\ "Red Flags Penalty" \in DOMAIN scorer.category_scores)
        => scorer.category_scores["Red Flags Penalty"] \in -Pt(15)..0

\* C18: for every valid answer record the total lies in 0..100.
C18_TotalWithinReportRange ==
    (Scored /\ IsValid(scorer.data)) => scorer.score \in 0..Pt(100)

\* the best record has been scored: its total of 97.5 is the highest
C18_Witness == Scored /\ scorer.data = BestRecord /\ scorer.score = 195

-----------------------------------------------------------------------------
(* Claims about the wizard, checked under WizardSpec *)

\* the result the session stores at step 4, in the shape of Outputs
StoredResult ==
    LET r == session_state.final_score[1] IN
    [category_scores |-> r.scorer.category_scores, score |-> r.score,
     recommendations |-> r.scorer.recommendations,
     risk_factors |-> r.scorer.risk_factors, badge_info |-> r.badge_info]

\* every rating of a document that the answers say is missing is the
\* unrated one
Consistent(vd) ==
    \A k \in Step2Keys : ~Submitted(vd, k) => vd[k] = <<Unrated(k)>>

\* C12: current_step is always one of 1..4; whenever it is 4 a result is
\* stored and the step-1, step-2 and step-3 commits of this assessment ran in
\* that order; and step 4 is entered only from step 3, by the Calculate
\* handler, whose result (one run of the four engine calls) is what is stored.
C12_SequentialSteps ==
    /\ [](/\ session_state.current_step \in 1..4
          /\ session_state.current_step = 4
                => (session_state.final_score # <<>> /\ committed = 3))
    /\ [][(session_state'.current_step = 4 /\ session_state.current_step # 4)
            => /\ session_state.current_step = 3
               /\ \E sel \in Step3Selections :
                      session_state' = Step3Calculate(session_state, sel)]_vars

\* step 4 reached after a detour: step 1 was committed a second time
C12_Witness ==
    /\ session_state.current_step = 4
    /\ session_state.final_score # <<>>
    /\ committed = 3
    /\ revised

\* C13: nothing of an earlier assessment is in the session when an
\* assessment starts, and the result stored at step 4 is the result of the
\* engine on a fresh scorer for the answers committed in this assessment, so
\* it depends on nothing else.
C13_ResultOfCurrentAnswersOnly ==
    /\ committed = 0
          => (session_state.vendor_data = EmptyVendorData
              /\ session_state.final_score = <<>>)
    /\ session_state.current_step = 4
          => /\ \A k \in WizardKeys : session_state.vendor_data[k] # <<>>
             /\ session_state.final_score[1].scorer.data = session_state.vendor_data
             /\ session_state.final_score[1].scorer.score = session_state.final_score[1].score
             /\ StoredResult = Assess(session_state.vendor_data)

\* a second assessment of the session that ended with another badge than
\* the first
C13_Witness ==
    /\ session_state.current_step = 4
    /\ assessment > 1
    /\ earlier # ""
    /\ earlier # session_state.final_score[1].badge_info.badge

\* C17: at step 4 the answers the engine was run on have the unrated value
\* ('poor', or 'suspicious' for testimonials) for every document that the
\* step-1 answers say is missing.
C17_NoStaleRating ==
    session_state.current_step = 4
        => Consistent(session_state.final_score[1].scorer.data)

\* step 4 of an assessment in which step 1 was committed again and left a
\* stale rating behind, with a document missing at scoring time
C17_Witness ==
    /\ session_state.current_step = 4
    /\ revised
    /\ \E k \in Step2Keys : ~Submitted(session_state.vendor_data, k)

\* C19: the Back handlers change current_step only, to 1 from step 2 and to
\* 2 from step 3; a step-1 Continue with an empty vendor name shows the
\* error and changes nothing in the session.
C19_BackAndErrorChangeNoData ==
    /\ [](/\ session_state.current_step = 2
              => Step2Back(session_state) = [session_state EXCEPT !.current_step = 1]
          /\ session_state.current_step = 3
              => Step3Back(session_state) = [session_state EXCEPT !.current_step = 2]
          /\ session_state.current_step = 1
              => \A sel \in Step1Selections :
                    sel["vendor_name"] = ""
                       => Step1Continue(session_state, sel)
                              = [state |-> session_state, error |-> NameError])
    /\ [][/\ (\/ session_state.current_step = 2 /\ session_state'.current_step = 1
              \/ session_state.current_step = 3 /\ session_state'.current_step = 2)
               => /\ session_state'.vendor_data = session_state.vendor_data
                  /\ session_state'.final_score = session_state.final_score
          /\ message' = NameError => session_state' = session_state]_vars

\* back at step 1 from step 3, the ratings of step 2 still committed, and
\* a Continue with an empty name has just been refused
C19_Witness ==
    /\ session_state.current_step = 1
    /\ message = NameError
    /\ committed = 2
    /\ session_state.vendor_data["id_quality"] # <<>>
    /\ session_state.vendor_data["responsiveness_rating"] = <<>>

====
